---- MODULE Spec2Model ----
(***************************************************************************)
(* A model of plapper's littledb: a key-value store (LittleDB, Collection) *)
(* over sqlite3 with pluggable serialization adapters.                     *)
(*                                                                         *)
(* The sqlite3 engine and the CPython sqlite3 module are the environment   *)
(* of the code.  They are modelled at the level the code observes them:    *)
(* per-connection transactions (in_transaction, implicit BEGIN before DML, *)
(* "with con:" committing on success and rolling back on an exception or   *)
(* on a failed commit), the rollback-journal file locks (shared, reserved, *)
(* pending) that make one connection's statement fail with "database is    *)
(* locked", and a private database per connection for ":memory:".          *)
(* Every method call of the code is one atomic action of a worker context  *)
(* (a thread), except get_collection: it tests and fills the codec cache,  *)
(* which all threads share, without a lock, and another thread can run     *)
(* between its test and its assignment.                                    *)
(***************************************************************************)
EXTENDS Integers, FiniteSets, Sequences, TLC

VARIABLES
    filename,   \* LittleDB.filename: "file" (a path) or ":memory:"
    umsgpack,   \* whether "import umsgpack" succeeded (littledb.py:16-19)
    adapters,   \* LittleDB._adapters: format -> adapter instance id, 0 = no entry
    colls,      \* the Collection objects get_collection has returned
    local,      \* LittleDB._local.connection per context, 0 = attribute not set
    conns,      \* the sqlite3.Connection objects ever created
    nconn,      \* how many connections sqlite3.connect has created
    dbs,        \* committed database contents: 0 = the file, i = memory db of i
    last,       \* the last call that returned or raised, and its outcome
    calls,      \* per context: the get_collection call it is in the middle of
    scope       \* the workload: the arguments the callers draw their calls from

vars ==
    <<filename, umsgpack, adapters, colls, local, conns, nconn, dbs, last,
      calls, scope>>

----------------------------------------------------------------------------
(* Bounds of the model. *)

NumContexts == 2
MaxConns == 3
MaxYielded == 3

Contexts == 1..NumContexts
ConnIds == 1..MaxConns
DbIds == 0..MaxConns

Names == {"t", "u"}
Keys == {"a", "b"}
Formats == {"json", "pickle", "msgpack", "None", "xml"}

----------------------------------------------------------------------------
(* Python values.  t is the Python type, d names the value. *)

PyInt(d) == [t |-> "int", d |-> d]
PyStr(d) == [t |-> "str", d |-> d]
PyBytes(d) == [t |-> "bytes", d |-> d]
PyDict(d) == [t |-> "dict", d |-> d]
PyNone == [t |-> "NoneType", d |-> "None"]
NoValue == [t |-> "-", d |-> "-"]

Scalars == {PyInt("1"), PyStr("s"), PyNone, PyBytes("raw"),
            PyBytes("{\"a\": 1}")}
Mappings == {PyDict("{'a': 1}"), PyDict("{1: 'x'}")}
Values == Scalars \cup Mappings

----------------------------------------------------------------------------
(* The outcome of a call: the exception raised ("" for none) and the value *)
(* returned.                                                               *)

Ok(v) == [exc |-> "", val |-> v]
Raise(e) == [exc |-> e, val |-> NoValue]

(* pickle.dumps / pickle.loads on the mappings of the model: the byte      *)
(* stream of a pickle is named after the object it holds, and only such a  *)
(* stream can be loaded.                                                   *)
pickle_dumps(data) ==
    CASE data.d = "{'a': 1}" -> PyBytes("pickle.{'a': 1}")
      [] data.d = "{1: 'x'}" -> PyBytes("pickle.{1: 'x'}")
      [] data.d = "{'1': 'x'}" -> PyBytes("pickle.{'1': 'x'}")
      [] OTHER -> PyBytes("pickle.{}")

pickle_loads(s) ==
    CASE s.d = "pickle.{'a': 1}" -> Ok(PyDict("{'a': 1}"))
      [] s.d = "pickle.{1: 'x'}" -> Ok(PyDict("{1: 'x'}"))
      [] s.d = "pickle.{'1': 'x'}" -> Ok(PyDict("{'1': 'x'}"))
      [] s.d = "pickle.{}" -> Ok(PyDict("{}"))
      [] OTHER -> Raise("UnpicklingError")

(* jsonify.dumps followed by .encode('utf-8'): JSON object keys are        *)
(* strings, so an integer key is written as its decimal text.              *)
jsonify_dumps(obj) ==
    CASE obj.d = "{'a': 1}" -> PyBytes("{\"a\": 1}")
      [] obj.d = "{1: 'x'}" -> PyBytes("{\"1\": \"x\"}")
      [] obj.d = "{'1': 'x'}" -> PyBytes("{\"1\": \"x\"}")
      [] OTHER -> PyBytes("{}")

(* .decode('utf-8') followed by jsonify.loads: any byte string that is a   *)
(* JSON text is parsed, whoever wrote it; anything else is a ValueError    *)
(* (JSONDecodeError, UnicodeDecodeError).                                  *)
jsonify_loads(data) ==
    CASE data.d = "{\"a\": 1}" -> Ok(PyDict("{'a': 1}"))
      [] data.d = "{\"1\": \"x\"}" -> Ok(PyDict("{'1': 'x'}"))
      [] data.d = "{}" -> Ok(PyDict("{}"))
      [] OTHER -> Raise("ValueError")

(* umsgpack.packb / umsgpack.unpackb.  unpackb reads one object from the   *)
(* front of the bytes: a first byte below 0x80 is a positive fixint ("r"   *)
(* is 114, "{" is 123), 0x80 (the first byte of a pickle) is an empty map. *)
umsgpack_packb(obj) ==
    CASE obj.d = "{'a': 1}" -> PyBytes("msgpack.{'a': 1}")
      [] obj.d = "{1: 'x'}" -> PyBytes("msgpack.{1: 'x'}")
      [] obj.d = "{'1': 'x'}" -> PyBytes("msgpack.{'1': 'x'}")
      [] OTHER -> PyBytes("msgpack.{}")

umsgpack_unpackb(data) ==
    CASE data.d = "msgpack.{'a': 1}" -> Ok(PyDict("{'a': 1}"))
      [] data.d = "msgpack.{1: 'x'}" -> Ok(PyDict("{1: 'x'}"))
      [] data.d = "msgpack.{'1': 'x'}" -> Ok(PyDict("{'1': 'x'}"))
      [] data.d = "msgpack.{}" -> Ok(PyDict("{}"))
      [] data.d = "raw" -> Ok(PyInt("114"))
      [] data.d \in {"{\"a\": 1}", "{\"1\": \"x\"}", "{}"} -> Ok(PyInt("123"))
      [] OTHER -> Ok(PyDict("{}"))

(* Adapter.from_dict / Adapter.to_dict of the adapter class registered for *)
(* a format, as bound by Collection.__init__.                              *)
from_dict(format, data) ==
    CASE format = "pickle" -> pickle_dumps(data)
      [] format = "json" -> jsonify_dumps(data)
      [] OTHER -> umsgpack_packb(data)

to_dict(format, s) ==
    CASE format = "pickle" -> pickle_loads(s)
      [] format = "json" -> jsonify_loads(s)
      [] OTHER -> umsgpack_unpackb(s)

(* RegistrableMeta.registry: the Adapter base class registers itself under *)
(* format None; MsgPackAdapter exists only when umsgpack was imported.     *)
registry ==
    {"None", "pickle", "json"} \cup (IF umsgpack THEN {"msgpack"} ELSE {})

(* A from_format that falls back to the json adapter. *)
from_format_fallback(format) ==
    IF format \in registry THEN format ELSE "json"

(* RegistrableMeta.from_format: registry.get(format); "" stands for None.  *)
from_format(format) == IF format \in registry THEN format ELSE ""

----------------------------------------------------------------------------
(* sqlite3 storage classes.  The sqlite3 module binds int, str, None and   *)
(* bytes to INTEGER, TEXT, NULL and BLOB and reads them back as such.      *)

SqlBind(v) ==
    CASE v.t = "int" -> [type |-> "integer", d |-> v.d]
      [] v.t = "str" -> [type |-> "text", d |-> v.d]
      [] v.t = "NoneType" -> [type |-> "null", d |-> v.d]
      [] OTHER -> [type |-> "blob", d |-> v.d]

SqlFetch(content) ==
    CASE content.type = "integer" -> PyInt(content.d)
      [] content.type = "text" -> PyStr(content.d)
      [] content.type = "null" -> PyNone
      [] OTHER -> PyBytes(content.d)

----------------------------------------------------------------------------
(* The sqlite3 engine.                                                     *)
(*                                                                         *)
(* A database holds tables and rows <<name, key, content>>.  sets is a     *)
(* history of the database, not part of it: for each table and key, the    *)
(* value and the format of the latest Collection.set that wrote it.        *)

EmptyDB == [tables |-> {}, rows |-> {}, sets |-> {}]

(* The cursor of a keys() sequence on a connection: the table it reads,    *)
(* the keys the table had when keys() was called, the keys yielded so far, *)
(* and the row the statement stands on.  The sqlite3 module steps to the   *)
(* next row before it returns one, so the statement is always one row      *)
(* ahead; it is active until it has stepped past the last row.  again says *)
(* that the row it stands on was replaced since ("txn": in the open        *)
(* transaction): the new row has a greater rowid and comes next.           *)
NoKey == "-"

NoCursor ==
    [status |-> "none", name |-> "", snapshot |-> {}, yielded |-> <<>>,
     ahead |-> NoKey, again |-> "no"]

NoConnection ==
    [state |-> "none", owner |-> 0, in_transaction |-> FALSE,
     lock |-> "none", work |-> EmptyDB, cursor |-> NoCursor]

(* sqlite3.connect(filename): a new connection in autocommit state.        *)
sqlite3_connect(c) ==
    [state |-> "open", owner |-> c, in_transaction |-> FALSE,
     lock |-> "none", work |-> EmptyDB, cursor |-> NoCursor]

(* ":memory:" gives every connection a database of its own; a file is     *)
(* shared by all connections.                                              *)
DbOf(i) == IF filename = ":memory:" THEN i ELSE 0

(* What connection i reads: its uncommitted version once it has written in *)
(* its transaction, the committed database otherwise.                      *)
View(w, i) ==
    IF w.cs[i].lock \in {"reserved", "pending"}
    THEN w.cs[i].work ELSE w.ds[DbOf(i)]

(* The statement of the connection's cursor has not stepped to its end. *)
Active(w, j) == w.cs[j].cursor.ahead # NoKey

(* The file lock of a connection: an active statement holds SHARED when    *)
(* the connection holds nothing more.                                      *)
Lock(w, j) ==
    IF w.cs[j].lock = "none" /\ Active(w, j) THEN "shared" ELSE w.cs[j].lock

(* The other connections to the same database that can hold a lock: the    *)
(* open ones, and closed ones with an active statement (sqlite3_close_v2   *)
(* defers the close until the statement is finalized).                     *)
Others(w, i) ==
    {j \in ConnIds \ {i} :
        /\ w.cs[j].state = "open" \/ (w.cs[j].state = "closed" /\ Active(w, j))
        /\ DbOf(j) = DbOf(i)}

(* File locking of the rollback journal: a reader needs SHARED, refused    *)
(* while another connection holds PENDING; a writer needs RESERVED,        *)
(* refused while another holds RESERVED or PENDING; a commit needs         *)
(* EXCLUSIVE, refused while another holds SHARED.                          *)
CanRead(w, i) ==
    \/ Lock(w, i) # "none"
    \/ \A j \in Others(w, i) : Lock(w, j) # "pending"

CanReserve(w, i) ==
    \/ w.cs[i].lock \in {"reserved", "pending"}
    \/ /\ CanRead(w, i)
       /\ \A j \in Others(w, i) : Lock(w, j) \notin {"reserved", "pending"}

CanCommit(w, i) == \A j \in Others(w, i) : Lock(w, j) # "shared"

Result(e, w) == [exc |-> e, w |-> w]

(* An insert into a table without a primary key: the old row stays. *)
InsertKeepingRows(db, name, key, content, val, format) ==
    [db EXCEPT
        !.rows = @ \cup {<<name, key, content>>},
        !.sets = {h \in @ : ~(h.name = name /\ h.key = key)}
                    \cup {[name |-> name, key |-> key, val |-> val,
                           format |-> format]}]

(* INSERT OR REPLACE on a table whose key column is the PRIMARY KEY: the   *)
(* row with the same key, if any, is deleted and the new row inserted.     *)
InsertOrReplace(db, name, key, content, val, format) ==
    [db EXCEPT
        !.rows = {r \in @ : ~(r[1] = name /\ r[2] = key)}
                    \cup {<<name, key, content>>},
        !.sets = {h \in @ : ~(h.name = name /\ h.key = key)}
                    \cup {[name |-> name, key |-> key, val |-> val,
                           format |-> format]}]

(* con.execute(SQL_INSERT_DOCUMENT, (key, data)).  The sqlite3 module      *)
(* opens a transaction before a DML statement when none is open; a failed  *)
(* statement changes nothing.                                              *)
ExecInsert(w, i, name, key, content, val, format) ==
    IF name \notin View(w, i).tables
    THEN Result("OperationalError: no such table", w)
    ELSE IF ~CanReserve(w, i)
    THEN Result("OperationalError: database is locked",
                [w EXCEPT !.cs[i].in_transaction = TRUE])
    ELSE Result("",
        [w EXCEPT
            !.cs[i].in_transaction = TRUE,
            !.cs[i].lock = IF @ = "pending" THEN @ ELSE "reserved",
            !.cs[i].work = InsertOrReplace(View(w, i), name, key, content,
                                           val, format),
            !.cs[i].cursor.again =
                IF /\ @ = "no"
                   /\ w.cs[i].cursor.name = name
                   /\ w.cs[i].cursor.ahead = key
                THEN "txn" ELSE @])

(* A SELECT on a table: takes SHARED, which a transaction keeps until it   *)
(* ends and autocommit releases when the statement is finished.            *)
ExecSelect(w, i, name) ==
    IF name \notin View(w, i).tables
    THEN Result("OperationalError: no such table", w)
    ELSE IF ~CanRead(w, i)
    THEN Result("OperationalError: database is locked", w)
    ELSE Result("",
        [w EXCEPT !.cs[i].lock =
            IF w.cs[i].in_transaction /\ @ = "none" THEN "shared" ELSE @])

(* ROLLBACK, also what closing a connection does to an open transaction.   *)
Rollback(w, i) ==
    [w EXCEPT !.cs[i].in_transaction = FALSE,
              !.cs[i].lock = "none",
              !.cs[i].work = EmptyDB,
              !.cs[i].cursor.again = IF @ = "txn" THEN "no" ELSE @]

(* con.commit(): nothing without a transaction; a transaction that wrote   *)
(* needs the exclusive lock, and keeps PENDING and stays open when it      *)
(* cannot get it.                                                          *)
ConCommit(w, i) ==
    IF ~w.cs[i].in_transaction THEN Result("", w)
    ELSE IF w.cs[i].lock \notin {"reserved", "pending"}
    THEN Result("", Rollback(w, i))
    ELSE IF ~CanCommit(w, i)
    THEN Result("OperationalError: database is locked",
                [w EXCEPT !.cs[i].lock = "pending"])
    ELSE Result("",
        Rollback([w EXCEPT
                     !.ds[DbOf(i)] = w.cs[i].work,
                     !.cs[i].cursor.again = IF @ = "txn" THEN "yes" ELSE @],
                 i))

(* Leaving "with con:": commit when the body raised nothing, roll back     *)
(* when it raised or when the commit fails; the exception propagates.      *)
WithExit(r, i) ==
    IF r.exc # "" THEN Result(r.exc, Rollback(r.w, i))
    ELSE LET k == ConCommit(r.w, i)
         IN  IF k.exc # "" THEN Result(k.exc, Rollback(k.w, i)) ELSE k

(* con.execute(SQL_CREATE_TABLE): a read when the table exists (IF NOT     *)
(* EXISTS); otherwise a write, which the sqlite3 module does not precede   *)
(* with BEGIN (DDL), so outside a transaction it commits by itself.        *)
ExecCreateTable(w, i, name) ==
    IF name \in View(w, i).tables THEN ExecSelect(w, i, name)
    ELSE IF ~CanReserve(w, i)
    THEN Result("OperationalError: database is locked", w)
    ELSE LET created ==
                [w EXCEPT
                    !.cs[i].lock = IF @ = "pending" THEN @ ELSE "reserved",
                    !.cs[i].work = [View(w, i) EXCEPT !.tables = @ \cup {name}]]
         IN  IF w.cs[i].in_transaction THEN Result("", created)
             ELSE IF ~CanCommit(w, i)
             THEN Result("OperationalError: database is locked", w)
             ELSE Result("",
                 Rollback([created EXCEPT
                              !.ds[DbOf(i)] = created.cs[i].work], i))

----------------------------------------------------------------------------
(* LittleDB and Collection.                                                *)

W == [cs |-> conns, ds |-> dbs]

(* The record kept of a call: its arguments, the exception it raised ("" *)
(* for none), the value it returned or the keys it yielded (each with the  *)
(* number of times it was yielded), the connection it used.                *)
NoKeys == <<>>

Call(op, c, name, format, key, val, out, ks, con) ==
    [op |-> op, ctx |-> c, name |-> name, format |-> format, key |-> key,
     val |-> val, exc |-> out.exc, ret |-> out.val, keys |-> ks, con |-> con]

(* A connection() that never finds a cached connection. *)
ConnNeverValid(c) == FALSE

(* A connection() that only looks whether the context has a connection.   *)
ConnCached(c) == local[c] # 0

(* LittleDB.connection, the try part: the context has a connection and it  *)
(* is still open (con.total_changes does not raise).                       *)
ConnValid(c) == local[c] # 0 /\ conns[local[c]].state = "open"

(* LittleDB.connection: the cached connection, else a new one.             *)
ConnOf(c) == IF ConnValid(c) THEN local[c] ELSE nconn + 1

Connected(c) ==
    IF ConnValid(c) THEN W
    ELSE [W EXCEPT !.cs[nconn + 1] = sqlite3_connect(c)]

CanConnect(c) == ConnValid(c) \/ nconn < MaxConns

(* The state a call leaves that went through LittleDB.connection and left  *)
(* the engine in w.                                                        *)
After(c, w) ==
    /\ conns' = w.cs
    /\ dbs' = w.ds
    /\ local' = [local EXCEPT ![c] = ConnOf(c)]
    /\ nconn' = IF ConnValid(c) THEN nconn ELSE nconn + 1

(* cls(): a new adapter instance, distinct from every one created before. *)
NewAdapter ==
    1 + (CHOOSE n \in {adapters[f] : f \in Formats} :
            \A f \in Formats : adapters[f] <= n)

(* A context that is not inside get_collection. *)
NoCall == [name |-> "", format |-> "", miss |-> FALSE]

Idle(c) == calls[c] = NoCall

(* The workloads.  Each draws the calls from its own sets of contexts,     *)
(* table names, formats, keys and values.                                  *)
Workload(contexts, names, formats, keys, values, files, libs) ==
    [contexts |-> contexts, names |-> names, formats |-> formats,
     keys |-> keys, values |-> values, files |-> files, libs |-> libs]

ValuesWorkload ==
    Workload({1}, {"t"}, {"json", "pickle", "msgpack"}, {"a"}, Values,
             {"file"}, {TRUE})
KeysWorkload ==
    Workload({1}, {"t"}, {"json"}, Keys,
             {PyInt("1"), PyInt("2"), PyDict("{'a': 1}")},
             {"file", ":memory:"}, {FALSE})
FormatsWorkload ==
    Workload({1}, Names, {"json", "msgpack", "None", "xml"}, {"a"},
             {PyInt("1")}, {"file"}, BOOLEAN)
ContextsWorkload ==
    Workload({1, 2}, {"t"}, {"json"}, {"a"}, {PyInt("1")},
             {"file"}, {FALSE})
TablesWorkload ==
    Workload({1}, {"t"}, {"json", "pickle"}, Keys, {PyDict("{'a': 1}")},
             {"file"}, {FALSE})
StoresWorkload ==
    Workload({1, 2}, {"t"}, {"json"}, {"a"}, {PyInt("1")},
             {"file", ":memory:"}, {FALSE})

InitWith(workload) ==
    /\ scope = workload
    /\ filename \in workload.files
    /\ umsgpack \in workload.libs
    /\ adapters = [f \in Formats |-> 0]
    /\ colls = {}
    /\ local = [c \in Contexts |-> 0]
    /\ conns = [i \in ConnIds |-> NoConnection]
    /\ nconn = 0
    /\ dbs = [d \in DbIds |-> EmptyDB]
    /\ last = Call("init", 0, "", "", "", NoValue, Ok(NoValue), NoKeys, 0)
    /\ calls = [c \in Contexts |-> NoCall]

Init ==
    \E workload \in {ValuesWorkload, KeysWorkload, FormatsWorkload,
                     ContextsWorkload, TablesWorkload, StoresWorkload} :
        InitWith(workload)

(* A set that never looks at the transaction state: always "with con:",   *)
(* or never.                                                               *)
in_transaction_ignored(w, i) == FALSE
in_transaction_assumed(w, i) == TRUE

(* A transaction state that all connections of the Store share. *)
in_transaction_shared(w, i) == \E j \in ConnIds : w.cs[j].in_transaction

(* con.in_transaction, as Collection.set reads it. *)
in_transaction(w, i) == w.cs[i].in_transaction

(* SQL_SELECT_DOCUMENT: the rows of the table with the key. *)
SelectDocument(db, name, key) ==
    {x \in db.rows : x[1] = name /\ x[2] = key}

(* A get that returns None for a missing key. *)
FetchedOrDefault(format, found) ==
    IF found = {} THEN Ok(PyNone)
    ELSE LET val == SqlFetch((CHOOSE x \in found : TRUE)[3])
         IN  IF val.t = "bytes" THEN to_dict(format, val) ELSE Ok(val)

(* Collection.get from cur.fetchone() on: no row is a KeyError; a bytes    *)
(* value goes through the adapter's to_dict, any other is returned as is.  *)
Fetched(format, found) ==
    IF found = {} THEN Raise("KeyError")
    ELSE LET val == SqlFetch((CHOOSE x \in found : TRUE)[3])
         IN  IF val.t = "bytes" THEN to_dict(format, val) ELSE Ok(val)

(* SQL_SELECT_KEYS, consumed: the key of every row of the table. *)
SelectKeys(db, name) ==
    LET rows == {x \in db.rows : x[1] = name}
    IN  [k \in {x[2] : x \in rows} |->
            Cardinality({x \in rows : x[2] = k})]

(* LittleDB.connection() called by the user. *)
connection(c) ==
    /\ Idle(c)
    /\ CanConnect(c)
    /\ After(c, Connected(c))
    /\ last' = Call("connection", c, "", "", "", NoValue, Ok(NoValue), NoKeys,
                    ConnOf(c))
    /\ UNCHANGED <<scope, filename, umsgpack, adapters, colls, calls>>

(* LittleDB.begin *)
begin(c) ==
    /\ Idle(c)
    /\ CanConnect(c)
    /\ LET i == ConnOf(c)
           w == Connected(c)
           r == IF w.cs[i].in_transaction
                THEN Result("OperationalError: transaction within a transaction", w)
                ELSE Result("", [w EXCEPT !.cs[i].in_transaction = TRUE])
       IN  /\ After(c, r.w)
           /\ last' = Call("begin", c, "", "", "", NoValue, Raise(r.exc), NoKeys, i)
    /\ UNCHANGED <<scope, filename, umsgpack, adapters, colls, calls>>

(* LittleDB.commit *)
commit(c) ==
    /\ Idle(c)
    /\ CanConnect(c)
    /\ LET i == ConnOf(c)
           r == ConCommit(Connected(c), i)
       IN  /\ After(c, r.w)
           /\ last' = Call("commit", c, "", "", "", NoValue, Raise(r.exc), NoKeys, i)
    /\ UNCHANGED <<scope, filename, umsgpack, adapters, colls, calls>>

(* A close that closes the connections of all contexts. *)
close_all(c) ==
    /\ Idle(c)
    /\ conns' = [i \in ConnIds |->
                    IF conns[i].state = "open"
                    THEN [Rollback(W, i).cs[i] EXCEPT !.state = "closed"]
                    ELSE conns[i]]
    /\ dbs' = IF filename = ":memory:" THEN [d \in DbIds |-> EmptyDB] ELSE dbs
    /\ last' = Call("close", c, "", "", "", NoValue, Ok(NoValue), NoKeys, local[c])
    /\ UNCHANGED <<scope, filename, umsgpack, adapters, colls, calls, local,
                   nconn>>

(* LittleDB.close: closes the connection object of the context, if it has  *)
(* one; closing rolls back an open transaction, and ends a memory database.*)
(* While a statement of the connection is active the engine only marks the *)
(* connection closed: its transaction and its locks stay until the         *)
(* statement is finalized.                                                 *)
close(c) ==
    /\ Idle(c)
    /\ IF local[c] # 0 /\ conns[local[c]].state = "open"
       THEN LET i == local[c]
                w == IF Active(W, i) THEN W ELSE Rollback(W, i)
            IN  /\ conns' = [w.cs EXCEPT ![i].state = "closed"]
                /\ dbs' = IF filename = ":memory:"
                          THEN [w.ds EXCEPT ![i] = EmptyDB] ELSE w.ds
       ELSE UNCHANGED <<conns, dbs>>
    /\ last' = Call("close", c, "", "", "", NoValue, Ok(NoValue), NoKeys, local[c])
    /\ UNCHANGED <<scope, filename, umsgpack, adapters, colls, calls, local,
                   nconn>>

(* LittleDB.get_collection up to the creation of the adapter: the test     *)
(* "format not in self._adapters" and, for a format not cached,            *)
(* Adapter.from_format(format); without an adapter class the call raises   *)
(* NotImplementedError.                                                    *)
get_collection(c, name, format) ==
    LET cls == from_format(format)
        miss == adapters[format] = 0
    IN  /\ Idle(c)
        /\ IF miss /\ cls = ""
           THEN /\ last' = Call("get_collection", c, name, format, "", NoValue,
                                Raise("NotImplementedError"), NoKeys, 0)
                /\ UNCHANGED calls
           ELSE /\ CanConnect(c)
                /\ calls' = [calls EXCEPT ![c] = [name |-> name,
                                                  format |-> format,
                                                  miss |-> miss]]
                /\ UNCHANGED last
        /\ UNCHANGED <<scope, filename, umsgpack, adapters, colls, local,
                       conns, nconn, dbs>>

(* LittleDB.get_collection from "self._adapters[format] = adapter = cls()" *)
(* on: a call that found no cached adapter stores a new one, whatever the  *)
(* cache holds by now; then the table is created inside "with con:" and    *)
(* the Collection is built from the local name adapter, which a call that  *)
(* found the format cached has not bound.                                  *)
get_collection_create(c) ==
    LET name == calls[c].name
        format == calls[c].format
        miss == calls[c].miss
    IN  /\ ~Idle(c)
        /\ CanConnect(c)
        /\ calls' = [calls EXCEPT ![c] = NoCall]
        /\ adapters' = IF miss
                       THEN [adapters EXCEPT ![format] = NewAdapter]
                       ELSE adapters
        /\ LET i == ConnOf(c)
               r == WithExit(ExecCreateTable(Connected(c), i, name), i)
               exc == IF r.exc # "" THEN r.exc
                      ELSE IF ~miss THEN "UnboundLocalError"
                      ELSE IF format = "None" THEN "AttributeError"
                      ELSE ""
           IN  /\ After(c, r.w)
               /\ colls' = IF exc = ""
                           THEN colls \cup {[name |-> name,
                                             format |-> format]}
                           ELSE colls
               /\ last' = Call("get_collection", c, name, format, "",
                               NoValue, Raise(exc), NoKeys, i)
        /\ UNCHANGED <<scope, filename, umsgpack>>

(* Collection.get *)
Collection_get(c, coll, key) ==
    /\ Idle(c)
    /\ coll \in colls
    /\ CanConnect(c)
    /\ LET i == ConnOf(c)
           r == ExecSelect(Connected(c), i, coll.name)
           out == IF r.exc # "" THEN Raise(r.exc)
                  ELSE Fetched(coll.format,
                               SelectDocument(View(r.w, i), coll.name, key))
       IN  /\ After(c, r.w)
           /\ last' = Call("get", c, coll.name, coll.format, key, NoValue,
                           out, NoKeys, i)
    /\ UNCHANGED <<scope, filename, umsgpack, adapters, colls, calls>>

(* Collection.set *)
Collection_set(c, coll, key, data) ==
    /\ Idle(c)
    /\ coll \in colls
    /\ CanConnect(c)
    /\ LET i == ConnOf(c)
           w == Connected(c)
           enc == IF data.t = "dict" THEN from_dict(coll.format, data)
                  ELSE data
           ins == ExecInsert(w, i, coll.name, key, SqlBind(enc), data,
                             coll.format)
           r == IF in_transaction(w, i) THEN ins ELSE WithExit(ins, i)
       IN  /\ After(c, r.w)
           /\ last' = Call("set", c, coll.name, coll.format, key, data,
                           Raise(r.exc), NoKeys, i)
    /\ UNCHANGED <<scope, filename, umsgpack, adapters, colls, calls>>

(* Collection.keys, with the sequence it returns consumed to its end. *)
Collection_keys(c, coll) ==
    /\ Idle(c)
    /\ coll \in colls
    /\ CanConnect(c)
    /\ LET i == ConnOf(c)
           r == ExecSelect(Connected(c), i, coll.name)
           ks == IF r.exc # "" THEN NoKeys
                 ELSE SelectKeys(View(r.w, i), coll.name)
       IN  /\ After(c, r.w)
           /\ last' = Call("keys", c, coll.name, coll.format, "", NoValue,
                           Raise(r.exc), ks, i)
    /\ UNCHANGED <<scope, filename, umsgpack, adapters, colls, calls>>

(* Collection.begin: LittleDB has no attribute begin_transaction. *)
Collection_begin(c, coll) ==
    /\ Idle(c)
    /\ coll \in colls
    /\ last' = Call("Collection.begin", c, coll.name, coll.format, "",
                    NoValue, Raise("AttributeError"), NoKeys, 0)
    /\ UNCHANGED <<scope, filename, umsgpack, adapters, colls, calls, local,
                   conns, nconn, dbs>>

(* Collection.commit *)
Collection_commit(c, coll) ==
    /\ Idle(c)
    /\ coll \in colls
    /\ CanConnect(c)
    /\ LET i == ConnOf(c)
           r == ConCommit(Connected(c), i)
       IN  /\ After(c, r.w)
           /\ last' = Call("Collection.commit", c, coll.name, coll.format,
                           "", NoValue, Raise(r.exc), NoKeys, i)
    /\ UNCHANGED <<scope, filename, umsgpack, adapters, colls, calls>>

Collections == [name : scope.names, format : scope.formats]

Next ==
    \/ \E c \in scope.contexts : connection(c)
    \/ \E c \in scope.contexts : begin(c)
    \/ \E c \in scope.contexts : commit(c)
    \/ \E c \in scope.contexts : close(c)
    \/ \E c \in scope.contexts, name \in scope.names,
          format \in scope.formats : get_collection(c, name, format)
    \/ \E c \in scope.contexts : get_collection_create(c)
    \/ \E c \in scope.contexts, coll \in Collections, key \in scope.keys :
          Collection_get(c, coll, key)
    \/ \E c \in scope.contexts, coll \in Collections, key \in scope.keys,
          data \in scope.values : Collection_set(c, coll, key, data)
    \/ \E c \in scope.contexts, coll \in Collections :
          Collection_keys(c, coll)
    \/ \E c \in scope.contexts, coll \in Collections :
          Collection_begin(c, coll)
    \/ \E c \in scope.contexts, coll \in Collections :
          Collection_commit(c, coll)

Spec == Init /\ [][Next]_vars
SpecValues == InitWith(ValuesWorkload) /\ [][Next]_vars
SpecKeys == InitWith(KeysWorkload) /\ [][Next]_vars
SpecFormats == InitWith(FormatsWorkload) /\ [][Next]_vars
SpecContexts == InitWith(ContextsWorkload) /\ [][Next]_vars
SpecTables == InitWith(TablesWorkload) /\ [][Next]_vars
SpecStores == InitWith(StoresWorkload) /\ [][Next]_vars

----------------------------------------------------------------------------
(* Collection.keys as the caller sees it: the call returns a generator     *)
(* over the cursor of the SELECT, and each next() on it is a step of its   *)
(* own, between which the caller can do anything else.                     *)

(* The order of the index on the key column. *)
KeyOrder == <<"a", "b">>

Rank(k) == CHOOSE n \in 1..Len(KeyOrder) : KeyOrder[n] = k

First(ks) ==
    IF ks = {} THEN NoKey
    ELSE CHOOSE k \in ks : \A h \in ks : Rank(k) <= Rank(h)

TableKeys(db, name) == {x[2] : x \in {y \in db.rows : y[1] = name}}

(* sqlite3_step of the cursor's statement: to the next index entry after   *)
(* the one it stands on, in what the connection reads now.                 *)
Step(w, i) ==
    LET q == w.cs[i].cursor
        after == {k \in TableKeys(View(w, i), q.name) :
                     Rank(k) > Rank(q.ahead)}
    IN  [q EXCEPT !.ahead = IF q.again # "no" THEN @ ELSE First(after),
                  !.again = "no"]

(* Collection.keys, the call: connection().execute(SQL_SELECT_KEYS) runs   *)
(* when keys() is called and steps to the first row; the generator that    *)
(* wraps the cursor is returned unconsumed.  One sequence per connection   *)
(* is followed.                                                            *)
Collection_keys_call(c, coll) ==
    /\ Idle(c)
    /\ coll \in colls
    /\ CanConnect(c)
    /\ LET i == ConnOf(c)
           r == ExecSelect(Connected(c), i, coll.name)
           ks == TableKeys(View(r.w, i), coll.name)
           q == [status |-> "open", name |-> coll.name, snapshot |-> ks,
                 yielded |-> <<>>, ahead |-> First(ks), again |-> "no"]
       IN  /\ r.w.cs[i].cursor.status # "open"
           /\ After(c, IF r.exc # "" THEN r.w
                       ELSE [r.w EXCEPT !.cs[i].cursor = q])
           /\ last' = Call("keys()", c, coll.name, coll.format, "", NoValue,
                           Raise(r.exc), NoKeys, i)
    /\ UNCHANGED <<scope, filename, umsgpack, adapters, colls, calls>>

(* next() on the generator of connection i, in the context that called     *)
(* keys(): the cursor refuses to work on a closed connection; with no row  *)
(* ahead the generator ends; else it yields the key of the row ahead and   *)
(* the statement steps on.  A generator that has ended frees its cursor,   *)
(* and a deferred close of the connection then happens.                    *)
Sequence_next(c, i) ==
    LET q == conns[i].cursor
    IN  /\ Idle(c)
        /\ conns[i].owner = c
        /\ q.status = "open"
        /\ Len(q.yielded) < MaxYielded
        /\ IF conns[i].state = "closed"
           THEN LET w == Rollback([W EXCEPT !.cs[i].cursor = NoCursor], i)
                IN  /\ conns' = w.cs
                    /\ dbs' = w.ds
                    /\ last' = Call("next", c, q.name, "", "", NoValue,
                                    Raise("ProgrammingError"), NoKeys, i)
           ELSE IF q.ahead = NoKey
           THEN /\ conns' = [conns EXCEPT ![i].cursor = NoCursor]
                /\ dbs' = dbs
                /\ last' = Call("next", c, q.name, "", "", NoValue,
                                Raise("StopIteration"), NoKeys, i)
           ELSE /\ conns' = [conns EXCEPT ![i].cursor =
                                [Step(W, i) EXCEPT
                                    !.yielded = Append(@, q.ahead)]]
                /\ dbs' = dbs
                /\ last' = Call("next", c, q.name, "", q.ahead, NoValue,
                                Ok(NoValue), NoKeys, i)
        /\ UNCHANGED <<scope, filename, umsgpack, adapters, colls, calls,
                       local, nconn>>

SequencesWorkload ==
    Workload({1}, {"t"}, {"json"}, Keys, {PyInt("1")}, {"file"}, {FALSE})

NextSequences ==
    \/ \E c \in scope.contexts : close(c)
    \/ \E c \in scope.contexts, name \in scope.names,
          format \in scope.formats : get_collection(c, name, format)
    \/ \E c \in scope.contexts : get_collection_create(c)
    \/ \E c \in scope.contexts, coll \in Collections, key \in scope.keys,
          data \in scope.values : Collection_set(c, coll, key, data)
    \/ \E c \in scope.contexts, coll \in Collections :
          Collection_keys_call(c, coll)
    \/ \E c \in scope.contexts, i \in ConnIds : Sequence_next(c, i)

SpecSequences == InitWith(SequencesWorkload) /\ [][NextSequences]_vars

----------------------------------------------------------------------------
(* Structured values and the codecs on them.                               *)
(*                                                                         *)
(* A structured value is a tree: t is the Python type, v the value of a    *)
(* scalar (its text) or the class of an instance, kids the elements of a   *)
(* list or tuple, the items of a dict (key, value), the attributes of an   *)
(* instance, or the constructor arguments of a date or date-time.          *)

Node(t, v, kids) == [t |-> t, v |-> v, kids |-> kids]
VInt(v) == Node("int", v, <<>>)
VStr(v) == Node("str", v, <<>>)
VNone == Node("NoneType", "None", <<>>)
VList(kids) == Node("list", "", kids)
VTuple(kids) == Node("tuple", "", kids)
VItem(k, val) == Node("item", "", <<k, val>>)
VDict(items) == Node("dict", "", items)
VDate(args) == Node("date", "", args)
VDateTime(args) == Node("datetime", "", args)
VObject(cls, items) == Node("object", cls, items)

(* The results of the calls made on the elements of a sequence. *)
AllOk(rs) == \A i \in DOMAIN rs : rs[i].exc = ""
FirstExc(rs) ==
    rs[CHOOSE i \in DOMAIN rs :
          rs[i].exc # "" /\ \A j \in DOMAIN rs : j < i => rs[j].exc = ""].exc
Vals(rs) == [i \in DOMAIN rs |-> rs[i].val]

(* json.JSONEncoder on a dict key: a str is kept, an int or None is        *)
(* written as its text, any other key is a TypeError.                      *)
json_key(k) ==
    CASE k.t = "str" -> Ok(k)
      [] k.t = "int" -> Ok(VStr(k.v))
      [] k.t = "NoneType" -> Ok(VStr("null"))
      [] OTHER -> Raise("TypeError")

(* JsonifyEncoder.default, called for what json cannot encode itself: the  *)
(* result of __json__ (Jsonable: the attributes and the class name), else  *)
(* of __getstate__ when the object has one, which from Python 3.11 on      *)
(* every object has (object.__getstate__, None for a date or date-time);   *)
(* else the tagged mapping of a date-time or a date.                       *)
JsonifyEncoder_default(obj, getstate) ==
    CASE obj.t = "object" ->
            Ok(VDict(obj.kids \o <<VItem(VStr("__class__"), VStr(obj.v))>>))
      [] obj.t # "object" /\ getstate -> Ok(VNone)
      [] obj.t = "datetime" /\ ~getstate ->
            Ok(VDict(<<VItem(VStr("__class__"), VStr("_datetime")),
                       VItem(VStr("__newargs__"), VList(obj.kids))>>))
      [] obj.t = "date" /\ ~getstate ->
            Ok(VDict(<<VItem(VStr("__class__"), VStr("_date")),
                       VItem(VStr("__newargs__"), VList(obj.kids))>>))
      [] OTHER -> Raise("TypeError")

(* jsonify.dumps: json.dumps with JsonifyEncoder.  The JSON text is        *)
(* modelled by the tree it denotes: lists and tuples are arrays, dict keys *)
(* are strings.                                                            *)
RECURSIVE dumps(_, _)
dumps(obj, getstate) ==
    CASE obj.t \in {"int", "str", "NoneType"} -> Ok(obj)
      [] obj.t \in {"list", "tuple"} ->
            LET rs == [i \in DOMAIN obj.kids |-> dumps(obj.kids[i], getstate)]
            IN  IF AllOk(rs) THEN Ok(VList(Vals(rs))) ELSE Raise(FirstExc(rs))
      [] obj.t = "dict" ->
            LET ks == [i \in DOMAIN obj.kids |-> json_key(obj.kids[i].kids[1])]
                rs == [i \in DOMAIN obj.kids |->
                          dumps(obj.kids[i].kids[2], getstate)]
            IN  IF ~AllOk(ks) THEN Raise(FirstExc(ks))
                ELSE IF ~AllOk(rs) THEN Raise(FirstExc(rs))
                ELSE Ok(VDict([i \in DOMAIN obj.kids |->
                                  VItem(ks[i].val, rs[i].val)]))
      [] OTHER ->
            LET d == JsonifyEncoder_default(obj, getstate)
            IN  IF d.exc # "" THEN d ELSE dumps(d.val, getstate)

(* A namespace: the names it maps to classes and to other objects.  kind   *)
(* is "dict", "module", or "none" for a call without a namespace.          *)
Namespace(kind, classes, objects) ==
    [kind |-> kind, classes |-> classes, objects |-> objects]

(* globals() of the jsonify module, the namespace of a loads() without     *)
(* one.                                                                    *)
jsonify_globals ==
    Namespace("dict", {"Jsonable", "JsonifyEncoder", "JsonifyDecoder"},
              {"datetime", "inspect", "json", "dumps", "loads", "DATE_FMT",
               "DATETIME_FMT"})

(* What getattr(namespace, clsname) finds on a dict object before the keys *)
(* of the dict are looked at: the type dict, a method or the doc string,   *)
(* or None.                                                                *)
DictTypeAttrs == {"__class__"}
DictObjectAttrs == {"keys", "get", "items", "__doc__"}
DictNoneAttrs == {"__hash__"}

(* Classes with a __setstate__ method. *)
SetstateClasses == {"WithSet"}

(* decode_object, the lookup of the class: getattr(self._namespace,        *)
(* clsname), and self._namespace.get(clsname) on AttributeError; _date and *)
(* _datetime are in every namespace (JsonifyDecoder.__init__).             *)
Resolve(ns, clsname) ==
    CASE clsname \in DictTypeAttrs -> [kind |-> "class", name |-> "dict"]
      [] clsname \in DictObjectAttrs -> [kind |-> "object", name |-> clsname]
      [] clsname \in DictNoneAttrs -> [kind |-> "none", name |-> clsname]
      [] clsname = "_date" -> [kind |-> "class", name |-> "date"]
      [] clsname = "_datetime" -> [kind |-> "class", name |-> "datetime"]
      [] clsname \in ns.classes -> [kind |-> "class", name |-> clsname]
      [] clsname \in ns.objects -> [kind |-> "object", name |-> clsname]
      [] OTHER -> [kind |-> "none", name |-> clsname]

(* bool(value), as "if clsname:" tests it. *)
Truthy(val) ==
    CASE val.t = "NoneType" -> FALSE
      [] val.t = "str" -> val.v # ""
      [] val.t = "int" -> val.v # "0"
      [] val.t \in {"list", "tuple", "dict"} -> val.kids # <<>>
      [] OTHER -> TRUE

(* The value of a key of a dict, dflt without the key: dict.pop(key, dflt) *)
(* together with Without.                                                  *)
ValueOf(items, key, dflt) ==
    IF \E i \in DOMAIN items : items[i].kids[1] = VStr(key)
    THEN items[CHOOSE i \in DOMAIN items : items[i].kids[1] = VStr(key)].kids[2]
    ELSE dflt

Without(items, key) ==
    LET keep(it) == it.kids[1] # VStr(key)
    IN  SelectSeq(items, keep)

(* Keys starting with two underscores. *)
DunderKeys == {"__class__", "__newargs__", "__x__"}

(* decode_object for a dict whose values are decoded: without a true       *)
(* __class__ the dict less that key; else cls.__new__(cls, *__newargs__),  *)
(* then __setstate__(result), or for a class without it setattr for every  *)
(* key that does not start with two underscores.                           *)
NewInstance(ns, clsname, result) ==
    LET cls == Resolve(ns, clsname.v)
        newargs == ValueOf(result, "__newargs__", VList(<<>>)).kids
        state == Without(result, "__newargs__")
        public(it) == it.kids[1].v \notin DunderKeys
        attrs == SelectSeq(state, public)
        ints == \A i \in DOMAIN newargs : newargs[i].t = "int"
    IN  CASE clsname.t # "str" -> Raise("TypeError")
          [] clsname.t = "str" /\ cls.kind = "none" -> Raise("NameError")
          [] clsname.t = "str" /\ cls.kind = "object" -> Raise("TypeError")
          [] OTHER ->
             CASE cls.name = "date" ->
                    IF ~(Len(newargs) = 3 /\ ints) THEN Raise("TypeError")
                    ELSE IF attrs # <<>> THEN Raise("AttributeError")
                    ELSE Ok(VDate(newargs))
               [] cls.name = "datetime" ->
                    IF ~(Len(newargs) = 7 /\ ints) THEN Raise("TypeError")
                    ELSE IF attrs # <<>> THEN Raise("AttributeError")
                    ELSE Ok(VDateTime(newargs))
               [] cls.name = "dict" ->
                    IF attrs # <<>> THEN Raise("AttributeError")
                    ELSE Ok(VDict(<<>>))
               [] OTHER ->
                    IF newargs # <<>> THEN Raise("TypeError")
                    ELSE IF cls.name \in SetstateClasses
                    THEN Ok(VObject(cls.name, state))
                    ELSE Ok(VObject(cls.name, attrs))

(* JsonifyDecoder.decode_object: every value that is a dict or a list is   *)
(* decoded first, then the dict itself.                                    *)
RECURSIVE decode_object(_, _)
decode_object(obj, ns) ==
    LET val(i) == IF obj.t = "list" THEN obj.kids[i] ELSE obj.kids[i].kids[2]
        rs == [i \in DOMAIN obj.kids |->
                  IF val(i).t \in {"dict", "list"}
                  THEN decode_object(val(i), ns) ELSE Ok(val(i))]
        result == [i \in DOMAIN obj.kids |->
                      VItem(obj.kids[i].kids[1], rs[i].val)]
        clsname == ValueOf(result, "__class__", VNone)
    IN  IF ~AllOk(rs) THEN Raise(FirstExc(rs))
        ELSE IF obj.t = "list" THEN Ok(VList(Vals(rs)))
        ELSE IF Truthy(clsname)
        THEN NewInstance(ns, clsname, Without(result, "__class__"))
        ELSE Ok(VDict(Without(result, "__class__")))

(* json.JSONDecoder.decode with object_hook = decode_object: the hook is   *)
(* called on every JSON object once its members are decoded.               *)
RECURSIVE JSONDecoder_decode(_, _)
JSONDecoder_decode(s, ns) ==
    CASE s.t = "list" ->
            LET rs == [i \in DOMAIN s.kids |-> JSONDecoder_decode(s.kids[i], ns)]
            IN  IF AllOk(rs) THEN Ok(VList(Vals(rs))) ELSE Raise(FirstExc(rs))
      [] s.t = "dict" ->
            LET rs == [i \in DOMAIN s.kids |->
                          JSONDecoder_decode(s.kids[i].kids[2], ns)]
            IN  IF ~AllOk(rs) THEN Raise(FirstExc(rs))
                ELSE decode_object(
                        VDict([i \in DOMAIN s.kids |->
                                  VItem(s.kids[i].kids[1], rs[i].val)]), ns)
      [] OTHER -> Ok(s)

(* jsonify.loads: without a namespace the globals of the jsonify module;   *)
(* JsonifyDecoder.__init__ calls namespace.setdefault, which a module      *)
(* object does not have.                                                   *)
loads(s, namespace) ==
    LET ns == IF namespace.kind = "none" THEN jsonify_globals ELSE namespace
    IN  IF ns.kind = "module" THEN Raise("AttributeError")
        ELSE JSONDecoder_decode(s, ns)

NoNamespace == Namespace("none", {}, {})

(* PickleAdapter: the pickle of an object holds the object.                *)
PickleAdapter_from_dict(data) == Ok(Node("pickle", "", <<data>>))
PickleAdapter_to_dict(s) == Ok(s.kids[1])

(* JsonAdapter: jsonify.dumps(obj).encode('utf-8') and                     *)
(* jsonify.loads(data.decode('utf-8')), which passes no namespace.         *)
JsonAdapter_from_dict(obj, getstate) == dumps(obj, getstate)
JsonAdapter_to_dict(data) == loads(data, NoNamespace)

(* MsgPackAdapter: umsgpack packs lists and tuples as arrays and dicts as  *)
(* maps with their keys as they are; from_date and from_datetime make the  *)
(* extension objects 0x10 and 0x20 of a date and a date-time, to_date and  *)
(* to_datetime build them again from the text.                             *)
RECURSIVE MsgPackAdapter_from_dict(_)
MsgPackAdapter_from_dict(obj) ==
    CASE obj.t \in {"int", "str", "NoneType"} -> Ok(obj)
      [] obj.t \in {"list", "tuple"} ->
            LET rs == [i \in DOMAIN obj.kids |->
                          MsgPackAdapter_from_dict(obj.kids[i])]
            IN  IF AllOk(rs) THEN Ok(VList(Vals(rs))) ELSE Raise(FirstExc(rs))
      [] obj.t = "dict" ->
            LET rs == [i \in DOMAIN obj.kids |->
                          MsgPackAdapter_from_dict(obj.kids[i].kids[2])]
            IN  IF ~AllOk(rs) THEN Raise(FirstExc(rs))
                ELSE Ok(VDict([i \in DOMAIN obj.kids |->
                                  VItem(obj.kids[i].kids[1], rs[i].val)]))
      [] obj.t = "date" -> Ok(Node("Ext", "0x10", obj.kids))
      [] obj.t = "datetime" -> Ok(Node("Ext", "0x20", obj.kids))
      [] OTHER -> Raise("UnsupportedTypeException")

RECURSIVE MsgPackAdapter_to_dict(_)
MsgPackAdapter_to_dict(data) ==
    CASE data.t = "list" ->
            VList([i \in DOMAIN data.kids |->
                      MsgPackAdapter_to_dict(data.kids[i])])
      [] data.t = "dict" ->
            VDict([i \in DOMAIN data.kids |->
                      VItem(data.kids[i].kids[1],
                            MsgPackAdapter_to_dict(data.kids[i].kids[2]))])
      [] data.t = "Ext" /\ data.v = "0x10" -> VDate(data.kids)
      [] data.t = "Ext" /\ data.v = "0x20" -> VDateTime(data.kids)
      [] OTHER -> data

(* The structured values the codecs are applied to. *)
Date2020 == VDate(<<VInt("2020"), VInt("1"), VInt("1")>>)
DateTimeMicro ==
    VDateTime(<<VInt("2020"), VInt("1"), VInt("1"), VInt("1"), VInt("2"),
                VInt("3"), VInt("4")>>)

StructuredValues ==
    { VDict(<<>>),
      VDict(<<VItem(VStr("a"), VInt("1")), VItem(VStr("b"), VStr("s"))>>),
      VDict(<<VItem(VStr("a"),
                    VDict(<<VItem(VStr("b"), VList(<<VInt("1"), VNone>>))>>))>>),
      VList(<<VInt("1"), VStr("s")>>),
      VDict(<<VItem(VInt("1"), VStr("x"))>>),
      VDict(<<VItem(VStr("a"), VTuple(<<VInt("1"), VInt("2")>>))>>),
      VDict(<<VItem(VStr("d"), Date2020)>>),
      VDict(<<VItem(VStr("t"), DateTimeMicro)>>),
      VDict(<<VItem(VStr("a"), VList(<<VDict(<<VItem(VStr("d"), Date2020)>>)>>))>>),
      VDict(<<VItem(VStr("id"), VInt("42")), VItem(VStr("today"), Date2020)>>) }

(* The JSON texts given to loads, as the trees they denote. *)
Tagged(clsname) == VDict(<<VItem(VStr("__class__"), VStr(clsname))>>)

ClassNames ==
    {"Foo", "Bunch", "WithSet", "Jsonable", "JsonifyEncoder", "datetime",
     "dumps", "keys", "__class__", "__hash__", ""}

JsonDocs ==
    {Tagged(n) : n \in ClassNames}
    \cup {VDict(<<VItem(VStr("a"), Tagged(n))>>) : n \in {"Foo", "Jsonable"}}
    \cup {VDict(<<VItem(VStr("a"), VList(<<Tagged("Foo")>>))>>),
          VList(<<Tagged("Foo")>>),
          VDict(<<VItem(VStr("a"), VInt("1"))>>),
          VDict(<<VItem(VStr("__class__"), VStr("Bunch")),
                  VItem(VStr("x"), VInt("1")),
                  VItem(VStr("__x__"), VInt("2"))>>),
          VDict(<<VItem(VStr("__class__"), VStr("WithSet")),
                  VItem(VStr("x"), VInt("1"))>>),
          VDict(<<VItem(VStr("__class__"), VStr("_date")),
                  VItem(VStr("__newargs__"), VList(Date2020.kids))>>),
          VDict(<<VItem(VStr("__class__"), VStr("_date")),
                  VItem(VStr("__newargs__"), VList(Date2020.kids)),
                  VItem(VStr("x"), VInt("1"))>>),
          VDict(<<VItem(VStr("__class__"), VStr("_datetime")),
                  VItem(VStr("__newargs__"), VList(DateTimeMicro.kids))>>),
          VDict(<<VItem(VStr("__class__"), VNone),
                  VItem(VStr("x"), VInt("1"))>>),
          VDict(<<VItem(VStr("__class__"), VInt("5"))>>)}

Namespaces ==
    {NoNamespace,
     Namespace("dict", {}, {}),
     Namespace("dict", {"Bunch", "WithSet"}, {}),
     Namespace("module", {"Bunch"}, {})}

CodecFormats == {"pickle", "json", "msgpack"}

CodecsWorkload ==
    Workload({}, {}, CodecFormats, {}, StructuredValues, {"file"}, {TRUE})

(* The record kept of a call of a codec. *)
CodecCall(op, format, arg, orig, getstate, namespace, out) ==
    [op |-> op, format |-> format, arg |-> arg, orig |-> orig,
     getstate |-> getstate, namespace |-> namespace,
     exc |-> out.exc, ret |-> out.val]

(* adapter.from_dict(data) of the adapter of a format; getstate tells      *)
(* whether the interpreter is one where object has __getstate__.           *)
Adapter_from_dict(format, data, getstate) ==
    /\ LET out == CASE format = "pickle" -> PickleAdapter_from_dict(data)
                    [] format = "json" -> JsonAdapter_from_dict(data, getstate)
                    [] OTHER -> MsgPackAdapter_from_dict(data)
       IN  last' = CodecCall("from_dict", format, data, data, getstate,
                             NoNamespace, out)
    /\ UNCHANGED <<scope, filename, umsgpack, adapters, colls, calls, local,
                   conns, nconn, dbs>>

(* adapter.to_dict(s) on the bytes from_dict has returned. *)
Adapter_to_dict ==
    /\ last.op = "from_dict" /\ last.exc = ""
    /\ LET out == CASE last.format = "pickle" -> PickleAdapter_to_dict(last.ret)
                    [] last.format = "json" -> JsonAdapter_to_dict(last.ret)
                    [] OTHER -> Ok(MsgPackAdapter_to_dict(last.ret))
       IN  last' = CodecCall("to_dict", last.format, last.ret, last.orig,
                             last.getstate, NoNamespace, out)
    /\ UNCHANGED <<scope, filename, umsgpack, adapters, colls, calls, local,
                   conns, nconn, dbs>>

(* jsonify.loads(s, namespace) *)
jsonify_loads_call(s, namespace) ==
    /\ last' = CodecCall("loads", "json", s, s, FALSE, namespace,
                         loads(s, namespace))
    /\ UNCHANGED <<scope, filename, umsgpack, adapters, colls, calls, local,
                   conns, nconn, dbs>>

NextCodecs ==
    \/ \E format \in scope.formats, data \in scope.values,
          getstate \in BOOLEAN : Adapter_from_dict(format, data, getstate)
    \/ Adapter_to_dict
    \/ \E s \in JsonDocs, namespace \in Namespaces :
          jsonify_loads_call(s, namespace)

SpecCodecs == InitWith(CodecsWorkload) /\ [][NextCodecs]_vars

----------------------------------------------------------------------------
(* Properties.                                                             *)

(* Errors of the engine, which the store passes on to the caller.          *)
EngineErrors ==
    {"OperationalError: no such table",
     "OperationalError: database is locked"}

(* The context has a connection and it is open. *)
HasOpenConnection(c) == local[c] # 0 /\ conns[local[c]].state = "open"

(* What the next call of a context reads: the view of its open connection, *)
(* else what a new connection finds.                                       *)
ViewOf(c) ==
    IF HasOpenConnection(c) THEN View(W, local[c])
    ELSE IF filename = ":memory:" THEN EmptyDB ELSE dbs[0]

HistoryEntry(call) ==
    [name |-> call.name, key |-> call.key, val |-> call.val,
     format |-> call.format]

(* C1: set(k, v) followed by get(k) on the same collection in the same     *)
(* context returns a value equal to v, for every format and every scalar   *)
(* or mapping v.                                                           *)
C1_SetThenGet ==
    [][(/\ last.op = "set" /\ last.exc = ""
        /\ last'.op = "get" /\ last'.ctx = last.ctx
        /\ last'.name = last.name /\ last'.format = last.format
        /\ last'.key = last.key)
       => (last'.exc = "" /\ last'.ret = last.val)]_vars

(* C2: get(k) of a key that is not in the collection's table (the table    *)
(* being read without an engine error) raises KeyError, returns nothing,   *)
(* and leaves the committed and the uncommitted table contents unchanged.  *)
C2_GetMissingRaisesKeyError ==
    [][(/\ last'.op = "get"
        /\ last'.exc \notin EngineErrors
        /\ SelectDocument(ViewOf(last'.ctx), last'.name, last'.key) = {})
       => (/\ last'.exc = "KeyError"
           /\ last'.ret = NoValue
           /\ dbs' = dbs
           /\ \A i \in ConnIds : conns'[i].work = conns[i].work)]_vars

C2_Witness ==
    /\ last.op = "get" /\ last.exc = "KeyError"
    /\ \E h \in dbs[DbOf(last.con)].sets : h.key # last.key

(* C3: set is an upsert.  In what a connection reads, every key that was   *)
(* set through a collection occurs exactly once in the table, and get(k)   *)
(* on that collection returns the value of the latest set(k, .).           *)
C3_Upsert ==
    \A c \in scope.contexts : \A coll \in colls :
        HasOpenConnection(c) =>
            \A h \in ViewOf(c).sets :
                (h.name = coll.name /\ h.format = coll.format) =>
                    LET found == SelectDocument(ViewOf(c), h.name, h.key)
                    IN  /\ Cardinality(found) = 1
                        /\ Fetched(coll.format, found) = Ok(h.val)

(* C4: get_collection(name, format) returns a Collection for every format  *)
(* that has an adapter class, on the first call for the format and on      *)
(* every later one (the engine raising no error).                          *)
C4_GetCollectionReturns ==
    (/\ last.op = "get_collection"
     /\ last.format \in registry \ {"None"}
     /\ last.exc \notin EngineErrors)
    => (/\ last.exc = ""
        /\ [name |-> last.name, format |-> last.format] \in colls)

(* C5: get_collection(name, f) for a format without a registered codec     *)
(* ("msgpack" without the msgpack library included) raises                 *)
(* NotImplementedError, creates no table, caches no codec and returns no   *)
(* collection.                                                             *)
Unregistered(format) ==
    \/ format = "xml"
    \/ format = "msgpack" /\ ~umsgpack

C5_UnregisteredFormatRaises ==
    [][(last'.op = "get_collection" /\ Unregistered(last'.format))
       => (/\ last'.exc = "NotImplementedError"
           /\ adapters' = adapters
           /\ colls' = colls
           /\ dbs' = dbs
           /\ conns' = conns)]_vars

C5_Witness ==
    /\ last.op = "get_collection" /\ last.format = "msgpack" /\ ~umsgpack
    /\ last.exc = "NotImplementedError"
    /\ adapters["json"] # 0
    /\ adapters["msgpack"] = 0

(* C6: a fully consumed keys() yields every key written so far to the      *)
(* table it reads exactly once, and no other key.                          *)
WrittenKeys(db, name) == {h.key : h \in {g \in db.sets : g.name = name}}

C6_KeysAreTheWrittenKeys ==
    (last.op = "keys" /\ last.exc = "")
    => last.keys = [k \in WrittenKeys(View(W, last.con), last.name) |-> 1]

C6_Witness ==
    /\ last.op = "keys" /\ last.exc = ""
    /\ DOMAIN last.keys = Keys
    /\ \E h \in dbs[DbOf(last.con)].sets : h.val = PyInt("2")

(* C7: with a transaction open on the context's connection, set writes     *)
(* inside it and does not commit: afterwards the transaction is still      *)
(* open, the committed database is as before and a successful write is     *)
(* among the uncommitted ones; commit() then commits them all together.    *)
InTransactionBefore(c) ==
    HasOpenConnection(c) /\ conns[local[c]].in_transaction

C7_SetJoinsOpenTransaction ==
    [][/\ (last'.op = "set" /\ InTransactionBefore(last'.ctx))
          => (/\ last'.con = local[last'.ctx]
              /\ conns'[last'.con].in_transaction
              /\ dbs' = dbs
              /\ last'.exc = ""
                    => HistoryEntry(last') \in conns'[last'.con].work.sets)
       /\ (/\ last'.op = "commit" /\ last'.exc = ""
           /\ InTransactionBefore(last'.ctx)
           /\ conns[local[last'.ctx]].lock = "reserved")
          => (/\ dbs'[DbOf(last'.con)] = conns[last'.con].work
              /\ ~conns'[last'.con].in_transaction)]_vars

C7_Witness ==
    /\ last.op = "set" /\ last.exc = "" /\ last.key = "b"
    /\ conns[last.con].in_transaction
    /\ HistoryEntry(last) \in conns[last.con].work.sets
    /\ \E h \in conns[last.con].work.sets : h.key = "a"
    /\ dbs[DbOf(last.con)].sets = {}

(* C8: with no transaction open on the context's connection, set commits   *)
(* by itself: when it returns no transaction is open, a successful write   *)
(* is committed, and of a failed write nothing is stored.                  *)
C8_SetCommitsByItself ==
    [][(last'.op = "set" /\ ~InTransactionBefore(last'.ctx))
       => (/\ ~conns'[last'.con].in_transaction
           /\ conns'[last'.con].lock = "none"
           /\ conns'[last'.con].work = EmptyDB
           /\ IF last'.exc = ""
              THEN HistoryEntry(last') \in dbs'[DbOf(last'.con)].sets
              ELSE dbs' = dbs)]_vars

C8_Witness ==
    /\ last.op = "set" /\ last.exc = ""
    /\ ~conns[last.con].in_transaction
    /\ HistoryEntry(last) \in dbs[DbOf(last.con)].sets
    /\ \E j \in ConnIds : j # last.con /\ conns[j].in_transaction

(* C9: Collection.begin() opens a transaction on the connection of the     *)
(* calling context, as LittleDB.begin() does.                              *)
C9_CollectionBeginOpensTransaction ==
    last.op = "Collection.begin"
    => (/\ last.exc = ""
        /\ HasOpenConnection(last.ctx)
        /\ conns[local[last.ctx]].in_transaction)

(* C10: a context has at most one open connection, which is the one its    *)
(* slot names and which it opened itself; a connection is opened only by a *)
(* call of its owner; and while it is open and not closed by close(), the  *)
(* context's calls keep the same connection.                               *)
C10_Inv ==
    /\ \A c \in Contexts :
          Cardinality({i \in ConnIds : conns[i].state = "open"
                                       /\ conns[i].owner = c}) <= 1
    /\ \A i \in ConnIds :
          conns[i].state = "open" => local[conns[i].owner] = i
    /\ \A c \in Contexts :
          local[c] # 0 => conns[local[c]].owner = c

C10_Step ==
    /\ \A i \in ConnIds :
          (conns[i].state = "none" /\ conns'[i].state # "none")
          => (/\ conns'[i].owner = last'.ctx
              /\ last'.op # "close"
              /\ last'.con = i)
    /\ (last'.con # 0 /\ last'.op # "close")
          => conns'[last'.con].owner = last'.ctx
    /\ \A c \in Contexts :
          (HasOpenConnection(c) /\ ~(last'.op = "close" /\ last'.ctx = c))
          => (/\ local'[c] = local[c]
              /\ conns'[local[c]].state = "open"
              /\ last'.ctx = c /\ last'.con # 0 => last'.con = local[c])

C10_OneConnectionPerContext == []C10_Inv /\ [][C10_Step]_vars

C10_Witness ==
    /\ last.op = "connection"
    /\ \A c \in Contexts : HasOpenConnection(c)
    /\ \E i \in ConnIds : conns[i].state = "closed"

(* C11: once the connection of a context is closed, the next call of the   *)
(* context that asks for the connection gets a new, open connection, which *)
(* becomes the connection of the context; the closed connection is not     *)
(* used and not changed.  No call ever works on a closed connection.       *)
HasClosedConnection(c) == local[c] # 0 /\ conns[local[c]].state = "closed"

C11_Step ==
    (/\ last'.op # "close" /\ last'.con # 0
     /\ HasClosedConnection(last'.ctx))
    => (/\ last'.con # local[last'.ctx]
        /\ conns[last'.con].state = "none"
        /\ conns'[last'.con].state = "open"
        /\ conns'[last'.con].owner = last'.ctx
        /\ local'[last'.ctx] = last'.con
        /\ conns'[local[last'.ctx]] = conns[local[last'.ctx]])

C11_Inv ==
    (last.op \notin {"init", "close"} /\ last.con # 0)
    => conns[last.con].state = "open"

C11_ClosedConnectionReplaced == []C11_Inv /\ [][C11_Step]_vars

C11_Witness ==
    /\ last.op = "set" /\ last.exc = ""
    /\ conns[last.con].state = "open"
    /\ \E i \in ConnIds : /\ i # last.con
                           /\ conns[i].state = "closed"
                           /\ conns[i].owner = last.ctx

(* C12: close() closes the connection of the calling context only and      *)
(* raises nothing: the connections and the slots of all other contexts are *)
(* as before, the committed contents of the file are as before, and in a   *)
(* context without an open connection close() changes nothing.             *)
C12_CloseOnlyOwnConnection ==
    [][last'.op = "close"
       => (/\ last'.exc = ""
           /\ local' = local
           /\ \A i \in ConnIds :
                 i # local[last'.ctx] => conns'[i] = conns[i]
           /\ \A d \in DbIds : d # local[last'.ctx] => dbs'[d] = dbs[d]
           /\ HasOpenConnection(last'.ctx)
                 => conns'[local[last'.ctx]].state = "closed"
           /\ ~HasOpenConnection(last'.ctx)
                 => (conns' = conns /\ dbs' = dbs))]_vars

C12_Witness ==
    /\ last.op = "close" /\ last.con # 0
    /\ conns[last.con].state = "closed"
    /\ \E j \in ConnIds : /\ conns[j].state = "open"
                           /\ conns[j].owner # last.ctx
                           /\ conns[j].lock = "reserved"

(* C13: the adapter instance cached for a format is never replaced by      *)
(* another instance and never removed, whatever get_collection calls the   *)
(* contexts make.                                                          *)
C13_CodecNeverReplaced ==
    [][\A f \in Formats : adapters[f] # 0 => adapters'[f] = adapters[f]]_vars

(* C14: for every codec and every structured value the codec encodes,      *)
(* decoding the encoded value gives a value equal to the original.         *)
C14_CodecRoundTrip ==
    last.op = "to_dict" => (last.exc = "" /\ last.ret = last.orig)

(* The values of the __class__ keys of the mappings of a JSON text, at any *)
(* depth.                                                                  *)
RECURSIVE Markers(_)
Markers(s) ==
    CASE s.t = "list" -> UNION {Markers(s.kids[i]) : i \in DOMAIN s.kids}
      [] s.t = "dict" ->
            UNION {IF s.kids[i].kids[1] = VStr("__class__")
                   THEN {s.kids[i].kids[2]}
                   ELSE Markers(s.kids[i].kids[2]) : i \in DOMAIN s.kids}
      [] OTHER -> {}

(* The type names among them: the non-empty strings. *)
TypeNames(s) == {m.v : m \in {n \in Markers(s) : n.t = "str" /\ n.v # ""}}

(* C15: loads with a mapping as namespace raises NameError when a mapping  *)
(* in the text, at any depth, has a __class__ marker with a type name that *)
(* the namespace does not hold.                                            *)
C15_UnknownClassRaisesNameError ==
    (/\ last.op = "loads"
     /\ last.namespace.kind = "dict"
     /\ \E n \in TypeNames(last.arg) :
           n \notin last.namespace.classes \cup last.namespace.objects
                     \cup {"_date", "_datetime"})
    => last.exc = "NameError"

(* C16: loads without a namespace resolves the type names _date and        *)
(* _datetime only: a text with any other type name in a __class__ marker   *)
(* raises NameError.                                                       *)
C16_OnlyTemporalTagsWithoutNamespace ==
    (/\ last.op = "loads"
     /\ last.namespace.kind = "none"
     /\ \E n \in TypeNames(last.arg) : n \notin {"_date", "_datetime"})
    => last.exc = "NameError"

(* C17: while a transaction is open on the connection of a context, get,   *)
(* set, keys and get_collection called by the context leave it open and    *)
(* commit nothing.                                                         *)
C17_TransactionStaysOpen ==
    [][(/\ last'.op \in {"get", "set", "keys", "get_collection"}
        /\ InTransactionBefore(last'.ctx))
       => (/\ conns'[local[last'.ctx]].in_transaction
           /\ dbs' = dbs)]_vars

(* C18: the mappings stored in one table were all encoded by the adapter   *)
(* of one format, which is the format of every Collection of the table.    *)
C18_OneCodecPerTable ==
    \A d \in DbIds : \A g, h \in dbs[d].sets :
        (g.name = h.name /\ g.val.t = "dict" /\ h.val.t = "dict")
        => /\ g.format = h.format
           /\ \A coll \in colls : coll.name = g.name => coll.format = g.format

(* C19: the sequence of one keys() call never fails, yields no key the     *)
(* table did not have when keys() was called and, when it ends, has        *)
(* yielded every key the table had then.                                   *)
Yielded(q) == {q.yielded[n] : n \in 1..Len(q.yielded)}

C19_SequenceIsSnapshot ==
    [][/\ \A i \in ConnIds :
            Yielded(conns'[i].cursor) \subseteq conns'[i].cursor.snapshot
       /\ last'.op = "next"
          => (/\ last'.exc \in {"", "StopIteration"}
              /\ last'.exc = "StopIteration"
                 => Yielded(conns[last'.con].cursor)
                        = conns[last'.con].cursor.snapshot)]_vars

(* C20: a set in a context that has no transaction open, while another     *)
(* context has one, leaves the other contexts' connections as they were    *)
(* and its own without a transaction: it is committed, or it raises the    *)
(* engine's lock error and stores nothing.  A commit or close that ends a  *)
(* context's transaction afterwards takes no committed row away and adds   *)
(* only rows of that transaction.                                          *)
OtherInTransaction(c) ==
    \E a \in Contexts \ {c} : InTransactionBefore(a)

C20_TransactionsPerConnection ==
    [][/\ (/\ last'.op = "set"
           /\ OtherInTransaction(last'.ctx)
           /\ ~InTransactionBefore(last'.ctx))
          => (/\ \A a \in Contexts \ {last'.ctx} :
                    /\ local'[a] = local[a]
                    /\ local[a] # last'.con
                    /\ local[a] # 0 => conns'[local[a]] = conns[local[a]]
              /\ ~conns'[last'.con].in_transaction
              /\ conns'[last'.con].work = EmptyDB
              /\ \/ /\ last'.exc = ""
                    /\ HistoryEntry(last') \in dbs'[DbOf(last'.con)].sets
                 \/ /\ last'.exc = "OperationalError: database is locked"
                    /\ dbs' = dbs)
       /\ (/\ last'.op \in {"commit", "close"}
           /\ InTransactionBefore(last'.ctx))
          => LET d == DbOf(local[last'.ctx])
             IN  /\ dbs[d].rows \subseteq dbs'[d].rows
                 /\ dbs'[d].rows \subseteq
                        dbs[d].rows \cup conns[local[last'.ctx]].work.rows]_vars

(* A set of one context was committed while another context has a          *)
(* transaction open.                                                       *)
C20_Witness ==
    /\ last.op = "set"
    /\ last.exc = ""
    /\ ~conns[last.con].in_transaction
    /\ HistoryEntry(last) \in dbs[DbOf(last.con)].sets
    /\ \E a \in Contexts \ {last.ctx} :
          /\ HasOpenConnection(a)
          /\ local[a] # last.con
          /\ conns[local[a]].in_transaction

(* C21: a get of a key for which some connection of the Store has          *)
(* committed a value returns that value, whichever connection the get      *)
(* goes through, unless the engine refuses it for a lock.                  *)
C21_CommittedValueSeenByAll ==
    (last.op = "get" /\ last.exc # "OperationalError: database is locked")
    => \A d \in DbIds : \A h \in dbs[d].sets :
          (h.name = last.name /\ h.key = last.key)
          => (last.exc = "" /\ last.ret = h.val)

(* C22: a get_collection that raises leaves the codec cache and the tables *)
(* of every database, committed or in a transaction, as they were.         *)
C22_FailedGetCollectionChangesNothing ==
    [][(last'.op = "get_collection" /\ last'.exc # "")
       => (/\ adapters' = adapters
           /\ \A d \in DbIds : dbs'[d].tables = dbs[d].tables
           /\ \A i \in ConnIds :
                 conns'[i].work.tables = conns[i].work.tables)]_vars

====
